---- MODULE Spec2Model ----
(***************************************************************************)
(* A model of tweetboat's reply cache (src/src/cache.rs) and of the event  *)
(* loop that uses it (src/src/main.rs).                                    *)
(*                                                                         *)
(* Indices are 0-based as in the Rust code; the TLA+ sequence `entries`    *)
(* is 1-based, so the deque slot idx is entries[idx + 1].                  *)
(*                                                                         *)
(* Six specifications:                                                     *)
(*   Spec      any sequence of calls of the ReplyCache API;                *)
(*   HistSpec  the same, with the history variables arrival, fresh, dead;  *)
(*   PressSpec the same, following one abandoned entry until it is evicted *)
(*             (history variables abandoned, pressure);                    *)
(*   MainSpec  the gateway event loop of main.rs driving the reply cache;  *)
(*   MainFairSpec  MainSpec under fair scheduling;                         *)
(*   OutSpec   MainSpec with the log of outbound requests (`outbound`).    *)
(*                                                                         *)
(* VecDeque::with_capacity(n) is taken to give a deque whose capacity() is *)
(* exactly n, which is what the test in cache.rs (len stays 4) relies on.  *)
(* An out-of-bounds index panics; the panic unwinds out of dispatch_event, *)
(* shard_loop and main, so nothing runs after it.                          *)
(* The seen-payload cache that add_repost_counts reads and writes is a     *)
(* second object of the same kind behind its own lock. MainSpec does not   *)
(* carry it: what add_repost_counts returns is left open (`edit`). Its     *)
(* stores are those Spec reaches, read with payloads in place of reply     *)
(* ids; its search_by_value is not in src/src/cache.rs and follows the     *)
(* written specification.                                                  *)
(***************************************************************************)
EXTENDS Integers, Sequences, FiniteSets, TLC

\* ---------------------------------------------------------------- bounds
\* Message ids (snowflakes) used as source keys: 1..MaxKey.
MaxKey == 3
\* Reply message ids stored by insert: 1..MaxReply.
MaxReply == 2
\* ReplyCache::with_capacity is called with a capacity in 1..MaxCapacity.
MaxCapacity == 2
\* InsertTokens a caller of the cache API holds unredeemed at one time.
MaxTokens == 2

\* Gateway events the shard loop receives in one run.
MaxEvents == 3

Keys == 1..MaxKey
Replies == 1..MaxReply
Capacities == 1..MaxCapacity
Events == 1..MaxEvents

\* ------------------------------------------------------------ data types
\* enum CacheEntry { Pending, Filled(MessageId) }
Pending == [tag |-> "Pending", reply |-> 0]
Filled(reply) == [tag |-> "Filled", reply |-> reply]

\* struct InsertToken { source, idx }
InsertToken(source, idx) == [source |-> source, idx |-> idx]

\* Option<T>
None == [tag |-> "None"]
Some(x) == [tag |-> "Some", val |-> x]

\* One element (MessageId, CacheEntry) of the deque.
Pair(source, entry) == [source |-> source, entry |-> entry]

VARIABLES
    capacity,   \* the capacity the deque was built with
    entries,    \* ReplyCache.0 : VecDeque<(MessageId, CacheEntry)>
    tokens,     \* InsertTokens issued by file_pending and not yet redeemed or dropped
    panicked,   \* TRUE once an indexing operation went out of bounds
    arrival,    \* history: arrival[i] = rank of entries[i] by time of filing (1 = eldest)
    fresh,      \* history: the held tokens whose source was neither evicted nor filed
                \* again since they were issued, with only file_pending calls since
    dead,       \* history: the held tokens whose source was evicted after they were issued
    abandoned,  \* history: the followed Pending entry whose token was dropped, as
                \* Some([source, idx]) with its current idx; Evicted once it was
                \* popped from the front; None when no entry is followed
    pressure,   \* history: file_pending calls that returned a token for a larger
                \* source since the followed entry was abandoned
    last,       \* history: the last cache call, its arguments and what it returned
    handlers,   \* handlers[e]: the dispatch_event call made for the e-th gateway event
    suppressing, \* number of tasks spawned by suppress_embeds_deferred still running
    outbound    \* history: what each handler asked Discord to do to a reply, in order

cacheVars == <<capacity, entries, tokens, panicked, arrival, fresh, dead, abandoned,
              pressure, last>>
histVars == <<arrival, fresh, dead>>
trackVars == <<abandoned, pressure>>
vars == <<capacity, entries, tokens, panicked, arrival, fresh, dead, abandoned,
          pressure, last, handlers, suppressing, outbound>>

\* ------------------------------------------------------ VecDeque helpers
\* Mutant of AtCapacity: the front is evicted one entry too late.
AtCapacityLate(store, cap) == Len(store) > cap

\* Mutant of AtCapacity: the deque is never taken to be full.
AtCapacityNever(store, cap) == FALSE

\* self.0.len() == self.0.capacity()
AtCapacity(store, cap) == Len(store) = cap

\* self.0.pop_front() (a no-op on an empty deque)
PopFront(store) == IF Len(store) = 0 THEN store ELSE Tail(store)

\* Mutant of InsertAt: the element is pushed to the back whatever idx is.
InsertAtBack(store, idx, e) == Append(store, e)

\* self.0.insert(idx, e): e ends up at index idx, later elements shift up
InsertAt(store, idx, e) ==
    SubSeq(store, 1, idx) \o <<e>> \o SubSeq(store, idx + 1, Len(store))

\* self.0[idx] = e, for idx < len
SetAt(store, idx, e) == [store EXCEPT ![idx + 1] = e]

\* The sources of a store, as a set.
SourcesOf(store) == {store[i].source : i \in 1..Len(store)}

\* 0-based indices at which `source` is stored.
IndicesOf(store, source) == {i - 1 : i \in {j \in 1..Len(store) : store[j].source = source}}

\* ReplyCache::search: binary_search_by_key on a deque sorted by source.
\* Ok(idx) of a matching element (any one of them when several match, as the
\* standard library leaves open), else Err(idx) of the insertion point.
Search(store, source) ==
    IF IndicesOf(store, source) # {}
    THEN {[ok |-> TRUE, idx |-> i] : i \in IndicesOf(store, source)}
    ELSE {[ok |-> FALSE,
           idx |-> Cardinality({j \in 1..Len(store) : store[j].source < source})]}

\* The fast path's test: back_source <= source
FastPath(back_source, source) == back_source <= source

\* --------------------------------------------------------- ReplyCache API
\* ReplyCache::file_pending: the possible outcomes
\* [store: the deque afterwards, ret: Option<InsertToken>].
FilePendingOutcomes(store, cap, source) ==
    LET s1 == IF AtCapacity(store, cap) THEN PopFront(store) ELSE store
    IN  IF Len(s1) > 0 /\ FastPath(s1[Len(s1)].source, source)
        THEN {[store |-> Append(s1, Pair(source, Pending)),
               ret |-> Some(InsertToken(source, Len(s1)))]}
        ELSE {IF r.ok
              THEN [store |-> s1, ret |-> None]
              ELSE [store |-> InsertAt(s1, r.idx, Pair(source, Pending)),
                    ret |-> Some(InsertToken(source, r.idx))]
              : r \in Search(s1, source)}

\* The token's recorded slot still holds the token's source.
TokenMatch(store, token) ==
    token.idx < Len(store) /\ store[token.idx + 1].source = token.source

\* ReplyCache::insert: the possible outcomes
\* [store: the deque afterwards, panic: the final index was out of bounds].
InsertOutcomes(store, token, reply) ==
    IF TokenMatch(store, token)
    THEN {[store |-> SetAt(store, token.idx, Pair(token.source, Filled(reply))),
           panic |-> FALSE]}
    ELSE {IF r.idx < Len(store)
          THEN [store |-> SetAt(store, r.idx, Pair(token.source, Filled(reply))),
                panic |-> FALSE]
          ELSE [store |-> store, panic |-> TRUE]
          : r \in Search(store, token.source)}

\* Mutant of DropInsertToken: giving up a token releases its reservation.
DropInsertTokenReleases(store, token) ==
    IF TokenMatch(store, token)
    THEN SubSeq(store, 1, token.idx) \o SubSeq(store, token.idx + 2, Len(store))
    ELSE store

\* An InsertToken goes out of scope unredeemed. The struct is plain data with
\* no Drop impl, so the deque is left as it is.
DropInsertToken(store, token) == store

\* ReplyCache::get_entry: the possible results (Option<CacheEntry>).
GetEntryResults(store, source) ==
    {IF r.ok THEN Some(store[r.idx + 1].entry) ELSE None : r \in Search(store, source)}

\* Mutant of TakeEntryOutcomes: the entry is returned and left as it is.
TakeEntryKeeps(store, source) ==
    {IF r.ok
     THEN [store |-> store, ret |-> Some(store[r.idx + 1].entry)]
     ELSE [store |-> store, ret |-> None]
     : r \in Search(store, source)}

\* Mutant of TakeEntryOutcomes: the entry is removed from the deque.
TakeEntryRemoves(store, source) ==
    {IF r.ok
     THEN [store |-> SubSeq(store, 1, r.idx) \o SubSeq(store, r.idx + 2, Len(store)),
           ret |-> Some(store[r.idx + 1].entry)]
     ELSE [store |-> store, ret |-> None]
     : r \in Search(store, source)}

\* ReplyCache::take_entry: the possible outcomes [store, ret: Option<CacheEntry>].
TakeEntryOutcomes(store, source) ==
    {IF r.ok
     THEN [store |-> SetAt(store, r.idx, Pair(source, Pending)),
           ret |-> Some(store[r.idx + 1].entry)]
     ELSE [store |-> store, ret |-> None]
     : r \in Search(store, source)}

\* search_by_value: a linear scan of the store that collects the sources of the
\* entries Filled with `needle`.
RECURSIVE SearchByValue(_, _)
SearchByValue(store, needle) ==
    IF store = <<>> THEN <<>>
    ELSE LET rest == SearchByValue(Tail(store), needle)
         IN  IF Head(store).entry = Filled(needle)
             THEN <<Head(store).source>> \o rest
             ELSE rest

\* Mutant of check_repost: it tells only whether the payload was seen at all.
CheckRepostAny(store, embed_url) ==
    IF SearchByValue(store, embed_url) # <<>> THEN 1 ELSE 0

\* check_repost: existing_posts.len()
CheckRepost(store, embed_url) == Len(SearchByValue(store, embed_url))

\* ------------------------------------------------------- history helpers
\* Ranks after the front entry left: every younger entry moves up one rank.
RanksAfterPop(ranks) ==
    [i \in 1..(Len(ranks) - 1) |->
        IF ranks[i + 1] > ranks[1] THEN ranks[i + 1] - 1 ELSE ranks[i + 1]]

\* file_pending on `store` evicts its front entry.
Evicts(store, cap) == AtCapacity(store, cap) /\ Len(store) > 0

\* Ranks after a file_pending on `store` that returned `ret`: the new entry is
\* the youngest.
RanksAfterFile(ranks, store, cap, ret) ==
    LET r1 == IF Evicts(store, cap) THEN RanksAfterPop(ranks) ELSE ranks
    IN  IF ret = None THEN r1
        ELSE InsertAt(r1, ret.val.idx, Len(r1) + 1)

\* The tokens still fresh after file_pending(source) on `store` returned `ret`:
\* those already fresh whose source is not `source` and was not the evicted
\* front, and the token just issued.
FreshAfterFile(held, store, cap, source, ret) ==
    {t \in held : /\ t.source # source
                  /\ ~(Evicts(store, cap) /\ store[1].source = t.source)}
    \cup (IF ret = None THEN {} ELSE {ret.val})

\* The held tokens that are dead after a file_pending on `store`: those already
\* dead, and those whose source is the front entry the call evicted.
DeadAfterFile(gone, held, store, cap) ==
    gone \cup (IF Evicts(store, cap)
               THEN {t \in held : t.source = store[1].source} ELSE {})

\* A dispatch_event call that has not been made yet.
Idle == [kind |-> "none", pc |-> "idle", source |-> 0, token |-> None, reply |-> 0,
         guards |-> {}]

\* A dispatch_event call that has returned (its locals are gone).
Done == [kind |-> "none", pc |-> "done", source |-> 0, token |-> None, reply |-> 0,
         guards |-> {}]

\* ------------------------------------------------------------ the actions
\* ReplyCache::with_capacity
Init ==
    /\ capacity \in Capacities
    /\ entries = <<>>
    /\ tokens = {}
    /\ panicked = FALSE
    /\ arrival = <<>>
    /\ fresh = {}
    /\ dead = {}
    /\ abandoned = None
    /\ pressure = 0
    /\ last = [op |-> "with_capacity", source |-> 0, ret |-> None]
    /\ handlers = [e \in Events |-> Idle]
    /\ suppressing = 0
    /\ outbound = <<>>

\* A caller files a pending entry and keeps the token it gets, if any.
FilePending(source) ==
    /\ ~panicked
    /\ \E o \in FilePendingOutcomes(entries, capacity, source) :
        /\ entries' = o.store
        /\ tokens' = IF o.ret # None /\ Cardinality(tokens) < MaxTokens
                     THEN tokens \cup {o.ret.val} ELSE tokens
        /\ last' = [op |-> "file_pending", source |-> source, ret |-> o.ret]
    /\ UNCHANGED <<capacity, panicked, handlers, suppressing, outbound>>

\* A caller redeems a token it holds.
Insert(token, reply) ==
    /\ ~panicked
    /\ token \in tokens
    /\ \E o \in InsertOutcomes(entries, token, reply) :
        /\ entries' = o.store
        /\ panicked' = o.panic
        /\ last' = [op |-> "insert", source |-> token.source,
                    ret |-> IF o.panic THEN [tag |-> "Panic"] ELSE Some(token)]
    /\ tokens' = tokens \ {token}
    /\ UNCHANGED <<capacity, handlers, suppressing, outbound>>

\* A caller gives up a token without redeeming it (its reply failed).
DropToken(token) ==
    /\ ~panicked
    /\ token \in tokens
    /\ tokens' = tokens \ {token}
    /\ last' = [op |-> "drop", source |-> token.source, ret |-> None]
    /\ UNCHANGED <<capacity, entries, panicked, handlers, suppressing, outbound>>

GetEntry(source) ==
    /\ ~panicked
    /\ \E r \in GetEntryResults(entries, source) :
        last' = [op |-> "get_entry", source |-> source, ret |-> r]
    /\ UNCHANGED <<capacity, entries, tokens, panicked, handlers, suppressing, outbound>>

TakeEntry(source) ==
    /\ ~panicked
    /\ \E o \in TakeEntryOutcomes(entries, source) :
        /\ entries' = o.store
        /\ last' = [op |-> "take_entry", source |-> source, ret |-> o.ret]
    /\ UNCHANGED <<capacity, tokens, panicked, handlers, suppressing, outbound>>

\* Any sequence of calls of the cache's API.
Next ==
    \/ \E source \in Keys :
        FilePending(source) /\ UNCHANGED <<histVars, trackVars>>
    \/ \E token \in tokens, reply \in Replies :
        Insert(token, reply) /\ UNCHANGED <<histVars, trackVars>>
    \/ \E token \in tokens :
        DropToken(token) /\ UNCHANGED <<histVars, trackVars>>
    \/ \E source \in Keys :
        GetEntry(source) /\ UNCHANGED <<histVars, trackVars>>
    \/ \E source \in Keys :
        TakeEntry(source) /\ UNCHANGED <<histVars, trackVars>>

Spec == Init /\ [][Next]_vars

\* The same calls, with the history of filing order and of token freshness.
HistFilePending(source) ==
    /\ FilePending(source)
    /\ arrival' = RanksAfterFile(arrival, entries, capacity, last'.ret)
    /\ fresh' = FreshAfterFile(fresh, entries, capacity, source, last'.ret) \cap tokens'
    /\ dead' = DeadAfterFile(dead, tokens, entries, capacity)
    /\ UNCHANGED trackVars

HistInsert(token, reply) ==
    /\ Insert(token, reply)
    /\ fresh' = {}
    /\ dead' = dead \ {token}
    /\ UNCHANGED <<arrival, trackVars>>

HistDropToken(token) ==
    /\ DropToken(token)
    /\ fresh' = fresh \ {token}
    /\ dead' = dead \ {token}
    /\ UNCHANGED <<arrival, trackVars>>

HistGetEntry(source) == GetEntry(source) /\ UNCHANGED <<histVars, trackVars>>

HistTakeEntry(source) ==
    /\ TakeEntry(source)
    /\ fresh' = {}
    /\ UNCHANGED <<arrival, dead, trackVars>>

HistNext ==
    \/ \E source \in Keys : HistFilePending(source)
    \/ \E token \in tokens, reply \in Replies : HistInsert(token, reply)
    \/ \E token \in tokens : HistDropToken(token)
    \/ \E source \in Keys : HistGetEntry(source)
    \/ \E source \in Keys : HistTakeEntry(source)

HistSpec == Init /\ [][HistNext]_vars

\* ----------------------------------- the calls, following an abandoned entry
Evicted == [tag |-> "Evicted"]

\* Where the followed entry is after a file_pending on `store` that returned
\* `ret`: the pop_front moves it down one slot or evicts it, an entry inserted
\* at or before its slot moves it up one.
AbandonedAfterFile(ab, store, cap, ret) ==
    IF ab.tag # "Some" THEN ab
    ELSE IF Evicts(store, cap) /\ ab.val.idx = 0 THEN Evicted
    ELSE LET p1 == IF Evicts(store, cap) THEN ab.val.idx - 1 ELSE ab.val.idx
             p2 == IF ret # None /\ ret.val.idx <= p1 THEN p1 + 1 ELSE p1
         IN  Some(InsertToken(ab.val.source, p2))

\* The count of successful file_pending calls for a source larger than the
\* followed entry's.
PressureAfterFile(ab, n, source, ret) ==
    IF ab.tag = "Some" /\ ret # None /\ source > ab.val.source /\ n <= MaxCapacity
    THEN n + 1 ELSE n

\* The followed entry is given up once an insert filled or overwrote it.
StillAbandoned(ab, store) ==
    IF ab.tag = "Some" /\ store[ab.val.idx + 1] # Pair(ab.val.source, Pending)
    THEN None ELSE ab

\* The variables PressSpec leaves alone.
pressFrame == <<capacity, histVars, last, handlers, suppressing, outbound>>

\* file_pending; the caller keeps the token it gets, if any.
PressFilePending(source) ==
    /\ ~panicked
    /\ \E o \in FilePendingOutcomes(entries, capacity, source) :
        /\ entries' = o.store
        /\ tokens' = IF o.ret # None /\ Cardinality(tokens) < MaxTokens
                     THEN tokens \cup {o.ret.val} ELSE tokens
        /\ abandoned' = AbandonedAfterFile(abandoned, entries, capacity, o.ret)
        /\ pressure' = PressureAfterFile(abandoned, pressure, source, o.ret)
    /\ UNCHANGED <<panicked, pressFrame>>

\* insert of a held token.
PressInsert(token, reply) ==
    /\ ~panicked
    /\ token \in tokens
    /\ \E o \in InsertOutcomes(entries, token, reply) :
        /\ entries' = o.store
        /\ panicked' = o.panic
        /\ abandoned' = StillAbandoned(abandoned, o.store)
        /\ pressure' = IF abandoned' = None THEN 0 ELSE pressure
    /\ tokens' = tokens \ {token}
    /\ UNCHANGED pressFrame

\* A token is dropped because its reply failed. The Pending entry at slot idx
\* that it leaves behind is followed from here on, or it is not (`follow`).
PressDropToken(token, idx, follow) ==
    /\ ~panicked
    /\ token \in tokens
    /\ tokens' = tokens \ {token}
    /\ entries' = DropInsertToken(entries, token)
    /\ IF follow /\ idx \in IndicesOf(entries, token.source)
          /\ entries[idx + 1].entry = Pending
       THEN abandoned' = Some(InsertToken(token.source, idx)) /\ pressure' = 0
       ELSE UNCHANGED trackVars
    /\ UNCHANGED <<panicked, pressFrame>>

\* take_entry (get_entry changes nothing and is left out).
PressTakeEntry(source) ==
    /\ ~panicked
    /\ \E o \in TakeEntryOutcomes(entries, source) : entries' = o.store
    /\ UNCHANGED <<tokens, panicked, trackVars, pressFrame>>

PressNext ==
    \/ \E source \in Keys : PressFilePending(source)
    \/ \E token \in tokens, reply \in Replies : PressInsert(token, reply)
    \/ \E token \in tokens, idx \in 0..(MaxCapacity - 1), follow \in BOOLEAN :
        PressDropToken(token, idx, follow)
    \/ \E source \in Keys : PressTakeEntry(source)

PressSpec == Init /\ [][PressNext]_vars

\* ------------------------------------------------ main.rs: the event loop
\* Mutant of CanDispatch: each dispatch_event call is started without awaiting
\* the one before it.
CanDispatchDetached(hs, e) == \A g \in Events : g < e => hs[g].pc # "idle"

\* shard_loop awaits each dispatch_event call before it polls the next event:
\* the e-th call starts once every earlier call has returned.
CanDispatch(hs, e) == \A g \in Events : g < e => hs[g].pc = "done"

\* Mutant of HeldAfter: the guard outlives the statement that took it.
HeldAcross(form, gs) == gs

\* The lock guards a statement leaves held once it has ended. The guard is a
\* temporary of the statement: a `let` or an expression statement drops it at
\* its semicolon, the scrutinee of an `if let` keeps it for the whole block.
HeldAfter(form, gs) == IF form = "if let" THEN gs ELSE {}

\* A statement that takes the guard `guard` in a temporary.
Stmt(form, guard) == [form |-> form, guard |-> guard]

\* The guards that keep RwLock::read / RwLock::write from returning `guard`.
ConflictsWith(guard) ==
    CASE guard = "replies.write" -> {"replies.read", "replies.write"}
      [] guard = "replies.read" -> {"replies.write"}
      [] guard = "seen.write" -> {"seen.read", "seen.write"}
      [] guard = "seen.read" -> {"seen.write"}

\* The guards a run of statements leaves held.
GuardsLeft(stmts) ==
    UNION {HeldAfter(stmts[i].form, {stmts[i].guard}) : i \in 1..Len(stmts)}

\* A run of statements blocks when one of them asks for a guard that
\* conflicts with one held before the run or left held by an earlier statement.
Blocked(held, stmts) ==
    \E i \in 1..Len(stmts) :
        ConflictsWith(stmts[i].guard) \cap (held \cup GuardsLeft(SubSeq(stmts, 1, i - 1))) # {}

\* The guards held by the dispatch_event calls.
AllHeld(hs) == UNION {hs[e].guards : e \in Events}

\* Mutant of AddRepostCountsStmts: the lookup of the seen cache is the
\* scrutinee of an `if let`, so its read guard lives on into the loop.
AddRepostCountsIfLet ==
    <<Stmt("if let", "seen.read"), Stmt("let", "seen.read"),
      Stmt("let", "seen.write"), Stmt("expr", "seen.write")>>

\* add_repost_counts and check_repost: the read guard of the seen cache in two
\* `let` statements, its write guard in a `let` and in an expression statement.
AddRepostCountsStmts ==
    <<Stmt("let", "seen.read"), Stmt("let", "seen.read"),
      Stmt("let", "seen.write"), Stmt("expr", "seen.write")>>

\* The guards add_repost_counts still holds when it returns.
AddRepostCountsGuards == GuardsLeft(AddRepostCountsStmts)

\* suppress_embeds_deferred is called when the message carries embeds.
Spawn(n, embeds) == IF embeds THEN n + 1 ELSE n

\* Event::MessageCreate, up to the first suspension. `skipped`: the author is a
\* bot or ignored, or no pass rewrites the content.
DispatchCreate(e, source, skipped, embeds) ==
    /\ ~panicked
    /\ handlers[e].pc = "idle"
    /\ CanDispatch(handlers, e)
    /\ IF skipped
       THEN /\ handlers' = [handlers EXCEPT ![e] = Done]
            /\ UNCHANGED <<entries, suppressing>>
       ELSE \E o \in FilePendingOutcomes(entries, capacity, source) :
            /\ ~Blocked(AllHeld(handlers), <<Stmt("let", "replies.write")>>)
            /\ suppressing' = Spawn(suppressing, embeds)
            /\ entries' = o.store
            /\ handlers' = [handlers EXCEPT ![e] =
                    IF o.ret = None THEN Done
                    ELSE [kind |-> "create", pc |-> "create_await",
                          source |-> source, token |-> o.ret, reply |-> 0,
                          guards |-> HeldAfter("let", {"replies.write"})]]
    /\ UNCHANGED <<capacity, tokens, panicked, histVars, trackVars, last>>

\* create_message returns. On an error the handler returns it (`?`) and its
\* token is dropped; otherwise it goes on to redeem the token.
CreateReturns(e, ok, reply) ==
    /\ ~panicked
    /\ handlers[e].pc = "create_await"
    /\ IF ~ok
       THEN /\ handlers' = [handlers EXCEPT ![e] = [handlers[e] EXCEPT !.pc = "failed"]]
            /\ entries' = DropInsertToken(entries, handlers[e].token.val)
       ELSE /\ handlers' = [handlers EXCEPT ![e] =
                    [handlers[e] EXCEPT !.pc = "insert", !.reply = reply]]
            /\ UNCHANGED entries
    /\ UNCHANGED <<capacity, tokens, panicked, histVars, trackVars, last, suppressing>>

\* The handler takes the write guard and redeems its token, then
\* add_repost_counts decides whether the reply is edited (`edit`).
InsertReply(e, edit) ==
    /\ ~panicked
    /\ handlers[e].pc = "insert"
    /\ ~Blocked(AllHeld(handlers), <<Stmt("expr", "replies.write")>> \o AddRepostCountsStmts)
    /\ \E o \in InsertOutcomes(entries, handlers[e].token.val, handlers[e].reply) :
        /\ entries' = o.store
        /\ panicked' = o.panic
        /\ handlers' = [handlers EXCEPT ![e] =
                IF o.panic
                THEN [handlers[e] EXCEPT !.pc = "panicked"]
                ELSE IF edit
                THEN [handlers[e] EXCEPT !.pc = "edit_await", !.token = None,
                        !.guards = @ \cup HeldAfter("expr", {"replies.write"})
                                     \cup AddRepostCountsGuards]
                ELSE Done]
    /\ UNCHANGED <<capacity, tokens, histVars, trackVars, last, suppressing>>

\* Event::MessageUpdate, up to the first suspension. `rewrites`: a pass rewrites
\* the edited content; `empty`: the edited content is empty.
DispatchUpdate(e, source, embeds, empty, rewrites) ==
    /\ ~panicked
    /\ handlers[e].pc = "idle"
    /\ CanDispatch(handlers, e)
    /\ ~Blocked(AllHeld(handlers), <<Stmt("let", "replies.read")>>)
    /\ \E r \in GetEntryResults(entries, source) :
        /\ ~Blocked(AllHeld(handlers),
                    IF r # None /\ r.val.tag = "Filled" /\ ~empty /\ rewrites
                    THEN AddRepostCountsStmts ELSE <<>>)
        /\ suppressing' = IF r = None THEN suppressing ELSE Spawn(suppressing, embeds)
        /\ handlers' = [handlers EXCEPT ![e] =
            IF r # None /\ r.val.tag = "Filled" /\ ~empty
            THEN [kind |-> "update",
                  pc |-> IF rewrites THEN "edit_await" ELSE "delete_await",
                  source |-> source, token |-> None, reply |-> r.val.reply,
                  guards |-> HeldAfter("let", {"replies.read"}) \cup
                             (IF rewrites THEN AddRepostCountsGuards ELSE {})]
            ELSE Done]
    /\ UNCHANGED cacheVars

\* Event::MessageDelete, up to the first suspension.
DispatchDelete(e, source) ==
    /\ ~panicked
    /\ handlers[e].pc = "idle"
    /\ CanDispatch(handlers, e)
    /\ ~Blocked(AllHeld(handlers), <<Stmt("let", "replies.write")>>)
    /\ \E o \in TakeEntryOutcomes(entries, source) :
        /\ entries' = o.store
        /\ handlers' = [handlers EXCEPT ![e] =
            IF o.ret # None /\ o.ret.val.tag = "Filled"
            THEN [kind |-> "delete", pc |-> "delete_await",
                  source |-> source, token |-> None, reply |-> o.ret.val.reply,
                  guards |-> HeldAfter("let", {"replies.write"})]
            ELSE Done]
    /\ UNCHANGED <<capacity, tokens, panicked, histVars, trackVars, last, suppressing>>

\* update_message on the reply returns; an error is returned by the handler.
EditReturns(e, ok) ==
    /\ ~panicked
    /\ handlers[e].pc = "edit_await"
    /\ handlers' = [handlers EXCEPT ![e] =
            IF ok THEN Done ELSE [handlers[e] EXCEPT !.pc = "failed"]]
    /\ UNCHANGED <<cacheVars, suppressing>>

\* delete_message on the reply returns; an error is returned by the handler.
DeleteReturns(e, ok) ==
    /\ ~panicked
    /\ handlers[e].pc = "delete_await"
    /\ handlers' = [handlers EXCEPT ![e] =
            IF ok THEN Done ELSE [handlers[e] EXCEPT !.pc = "failed"]]
    /\ UNCHANGED <<cacheVars, suppressing>>

\* shard_loop logs the error dispatch_event returned and goes on to poll.
LogDispatchFailed(e) ==
    /\ ~panicked
    /\ handlers[e].pc = "failed"
    /\ handlers' = [handlers EXCEPT ![e] = Done]
    /\ UNCHANGED <<cacheVars, suppressing>>

\* The task spawned by suppress_embeds_deferred finishes.
SuppressReturns ==
    /\ ~panicked
    /\ suppressing > 0
    /\ suppressing' = suppressing - 1
    /\ UNCHANGED <<cacheVars, handlers>>

\* create_message gives every reply an id of its own: the reply made for the
\* e-th event gets id e.
NewReplyId(e) == e

MainNext ==
    \/ \E e \in Events, source \in Keys, skipped \in BOOLEAN, embeds \in BOOLEAN :
        DispatchCreate(e, source, skipped, embeds) /\ UNCHANGED outbound
    \/ \E e \in Events, ok \in BOOLEAN :
        CreateReturns(e, ok, NewReplyId(e)) /\ UNCHANGED outbound
    \/ \E e \in Events, edit \in BOOLEAN : InsertReply(e, edit) /\ UNCHANGED outbound
    \/ \E e \in Events, source \in Keys, embeds \in BOOLEAN, empty \in BOOLEAN,
          rewrites \in BOOLEAN :
        DispatchUpdate(e, source, embeds, empty, rewrites) /\ UNCHANGED outbound
    \/ \E e \in Events, source \in Keys : DispatchDelete(e, source) /\ UNCHANGED outbound
    \/ \E e \in Events, ok \in BOOLEAN : EditReturns(e, ok) /\ UNCHANGED outbound
    \/ \E e \in Events, ok \in BOOLEAN : DeleteReturns(e, ok) /\ UNCHANGED outbound
    \/ \E e \in Events : LogDispatchFailed(e) /\ UNCHANGED outbound
    \/ SuppressReturns /\ UNCHANGED outbound

MainSpec == Init /\ [][MainNext]_vars

\* The event loop under fair scheduling, with every outbound call returning:
\* a handler that can go on after create_message, update_message or
\* delete_message returned does so, and so does one that can take its guard.
MainFairness ==
    \A e \in Events :
        /\ WF_vars((\E ok \in BOOLEAN : CreateReturns(e, ok, NewReplyId(e)))
                        /\ UNCHANGED outbound)
        /\ WF_vars((\E edit \in BOOLEAN : InsertReply(e, edit)) /\ UNCHANGED outbound)
        /\ WF_vars((\E ok \in BOOLEAN : EditReturns(e, ok)) /\ UNCHANGED outbound)
        /\ WF_vars((\E ok \in BOOLEAN : DeleteReturns(e, ok)) /\ UNCHANGED outbound)

MainFairSpec == MainSpec /\ MainFairness

\* ------------------------------------- the event loop, with the outbound log
\* One line of the log: the handler kind, what it asked for ("edit", "delete",
\* or "none" when a MessageDelete handler found no reply to delete), the
\* source message and the reply.
Outbound(by, op, source, reply) ==
    [by |-> by, op |-> op, source |-> source, reply |-> reply]

\* What the dispatch_event call `h` has just asked for, as log lines.
IssuedBy(h) ==
    IF h.pc = "edit_await" THEN <<Outbound(h.kind, "edit", h.source, h.reply)>>
    ELSE IF h.pc = "delete_await"
    THEN <<Outbound(h.kind, "delete", h.source, h.reply)>>
    ELSE <<>>

OutInsertReply(e, edit) ==
    /\ InsertReply(e, edit)
    /\ outbound' = outbound \o IssuedBy(handlers'[e])

OutDispatchUpdate(e, source, embeds, empty, rewrites) ==
    /\ DispatchUpdate(e, source, embeds, empty, rewrites)
    /\ outbound' = outbound \o IssuedBy(handlers'[e])

OutDispatchDelete(e, source) ==
    /\ DispatchDelete(e, source)
    /\ outbound' = outbound \o
            (IF handlers'[e].pc = "delete_await" THEN IssuedBy(handlers'[e])
             ELSE <<Outbound("delete", "none", source, 0)>>)

OutNext ==
    \/ \E e \in Events, source \in Keys, skipped \in BOOLEAN, embeds \in BOOLEAN :
        DispatchCreate(e, source, skipped, embeds) /\ UNCHANGED outbound
    \/ \E e \in Events, ok \in BOOLEAN :
        CreateReturns(e, ok, NewReplyId(e)) /\ UNCHANGED outbound
    \/ \E e \in Events, edit \in BOOLEAN : OutInsertReply(e, edit)
    \/ \E e \in Events, source \in Keys, embeds \in BOOLEAN, empty \in BOOLEAN,
          rewrites \in BOOLEAN :
        OutDispatchUpdate(e, source, embeds, empty, rewrites)
    \/ \E e \in Events, source \in Keys : OutDispatchDelete(e, source)
    \/ \E e \in Events, ok \in BOOLEAN : EditReturns(e, ok) /\ UNCHANGED outbound
    \/ \E e \in Events, ok \in BOOLEAN : DeleteReturns(e, ok) /\ UNCHANGED outbound
    \/ \E e \in Events : LogDispatchFailed(e) /\ UNCHANGED outbound
    \/ SuppressReturns /\ UNCHANGED outbound

OutSpec == Init /\ [][OutNext]_vars

\* ------------------------------------------------------ model sanity
TypeOK ==
    /\ capacity \in Capacities
    /\ \A i \in 1..Len(entries) :
        /\ entries[i].source \in Keys
        /\ entries[i].entry \in {Pending} \cup
                {Filled(r) : r \in Replies \cup {NewReplyId(e) : e \in Events}}
    /\ \A t \in tokens : t.source \in Keys /\ t.idx \in 0..(MaxCapacity - 1)
    /\ Cardinality(tokens) <= MaxTokens

\* The history variables of HistSpec.
HistOK ==
    /\ fresh \subseteq tokens
    /\ dead \subseteq tokens
    /\ Len(arrival) = Len(entries)
    /\ {arrival[i] : i \in 1..Len(arrival)} = 1..Len(entries)

\* The history variables of PressSpec: the followed entry is where `abandoned`
\* says it is.
TrackOK ==
    abandoned.tag = "Some" =>
        /\ abandoned.val.idx < Len(entries)
        /\ entries[abandoned.val.idx + 1] = Pair(abandoned.val.source, Pending)

\* The deque stays sorted by source (not strictly), which Search relies on.
SortedOK ==
    \A i \in 1..(Len(entries) - 1) : entries[i].source <= entries[i + 1].source
\* ------------------------------------------------------------ the claims
\* Strictly ascending by source.
StrictlyAscending(store) ==
    \A i \in 1..(Len(store) - 1) : store[i].source < store[i + 1].source

\* C1: single owner. Filing a pending entry for a source that is present in
\* the store (Pending or Filled) returns None.
C1_SingleOwner ==
    [][\A k \in Keys :
        (k \in SourcesOf(entries) /\ FilePending(k)) => last'.ret = None]_vars

\* A MessageCreate handler between its file_pending and its insert for `source`.
InFlight(e, source) ==
    /\ handlers[e].kind = "create"
    /\ handlers[e].pc \in {"create_await", "insert"}
    /\ handlers[e].token # None
    /\ handlers[e].token.val.source = source

\* C2: at most one in-flight reply production per source. No two handlers hold
\* an unredeemed token for the same source at the same time.
C2_OneInFlightPerKey ==
    \A k \in Keys : \A e1, e2 \in Events :
        (InFlight(e1, k) /\ InFlight(e2, k)) => e1 = e2

\* C2 witness: a handler is in flight for a source that was delivered before:
\* an earlier MessageCreate handler filed it and filled it, and the handler in
\* flight was given a token for it all the same.
C2_Witness ==
    \E k \in Keys : \E e \in Events :
        /\ InFlight(e, k)
        /\ \E i \in IndicesOf(entries, k) : entries[i + 1].entry.tag = "Filled"
        /\ \E i \in IndicesOf(entries, k) : entries[i + 1].entry.tag = "Pending"

\* C3: order invariant. In every reachable state the store is strictly
\* ascending by source, so no source is stored twice.
C3_OrderInvariant == StrictlyAscending(entries)

\* C4: capacity invariant. The store never holds more entries than the
\* capacity it was built with.
C4_CapacityInvariant == Len(entries) <= capacity

\* C4 witness: the store is full right after a successful file_pending, and
\* the source of a held token has already left the store.
C4_Witness ==
    /\ capacity >= 2
    /\ Len(entries) = capacity
    /\ last.op = "file_pending" /\ last.ret # None
    /\ \E t \in tokens : t.source \notin SourcesOf(entries)

\* C5: stale-token tolerance. Redeeming a token whose source is no longer in
\* the store leaves the store exactly as it was.
C5_StaleInsertNoEffect ==
    [][\A t \in tokens, v \in Replies :
        (t.source \notin SourcesOf(entries) /\ Insert(t, v)) => entries' = entries]_vars

\* C6: insert never fails. No call of insert indexes past the end of the deque.
C6_InsertNeverPanics == ~panicked

C8_EvictionVictim ==
    [][\A k \in Keys :
        (Len(entries) = capacity /\ k \notin SourcesOf(entries) /\ FilePending(k)) =>
            /\ GetEntryResults(entries', entries[1].source) = {None}
            /\ GetEntryResults(entries', k) = {Some(Pending)}
            /\ \A i \in 2..Len(entries) :
                \E j \in 1..Len(entries') : entries'[j] = entries[i]]_vars

\* C9 (under HistSpec): eviction follows insertion order. The entry file_pending evicts from a
\* full store is the one that was filed earliest among those present.
C9_EvictsEldest ==
    [][\A k \in Keys :
        (Len(entries) = capacity /\ FilePending(k)) => arrival[1] = 1]_vars

\* C10: entries are destroyed only by admitting a new source at capacity. Every
\* step in which a source leaves the store is a file_pending on a full store
\* that admits its source (returns a token).
C10_OnlyEvictionRemoves ==
    [][(SourcesOf(entries) \ SourcesOf(entries') # {}) =>
        \E k \in Keys :
            /\ FilePending(k)
            /\ Len(entries) = capacity
            /\ last'.ret # None]_vars

\* The replies with which `source` is stored Filled.
FilledValues(store, source) ==
    {store[i].entry.reply : i \in {j \in 1..Len(store) :
        store[j].source = source /\ store[j].entry.tag = "Filled"}}

\* C11: reopen round trip. When an insert has filled `k` with v and k is still
\* stored, take_entry(k) returns Filled(v), and a get_entry(k) right after it
\* returns Pending.
C11_TakeReturnsFilled ==
    [][\A k \in Keys :
        (FilledValues(entries, k) # {} /\ TakeEntry(k)) =>
            /\ last'.ret \in {Some(Filled(v)) : v \in FilledValues(entries, k)}
            /\ GetEntryResults(entries', k) = {Some(Pending)}]_vars

\* C12 (under HistSpec): an evicted reservation's token is dead. When a held
\* token's source was evicted after the token was issued and the source has
\* been filed again (another, live token for it is held), redeeming the dead
\* token changes nothing: the new entry of the source stays Pending.
C12_DeadTokenNoOp ==
    [][\A t1 \in dead, v1 \in Replies :
        (/\ \E t2 \in tokens \ dead : t2.source = t1.source
         /\ Insert(t1, v1))
        => entries' = entries]_vars

\* A dispatch_event call suspended on an outbound call.
Awaiting(e) == handlers[e].pc \in {"create_await", "edit_await", "delete_await"}

\* C13 (under MainSpec): no guard across a suspension. A handler that waits
\* on an outbound call holds no guard of the reply cache or of the seen cache.
C13_NoGuardAcrossAwait ==
    \A e \in Events : Awaiting(e) => handlers[e].guards = {}

\* C13 witness: a MessageCreate handler that went through file_pending, insert
\* and add_repost_counts waits on update_message while a task that flags a
\* message is still running, and it holds no guard.
C13_Witness ==
    \E e \in Events :
        /\ handlers[e].kind = "create"
        /\ handlers[e].pc = "edit_await"
        /\ handlers[e].guards = {}
        /\ suppressing > 0

\* Model sanity (MainSpec): a MessageDelete is never handled while a
\* MessageCreate handler is between its file_pending and its insert, because
\* shard_loop awaits each dispatch_event call before it takes the next event.
NoDeleteDuringCreate ==
    [][\A e \in Events, k \in Keys :
        DispatchDelete(e, k) => \A g \in Events, j \in Keys : ~InFlight(g, j)]_vars

\* C15 (under MainSpec): an outbound failure never corrupts the cache. A step
\* in which a handler fails on create_message, update_message or
\* delete_message changes no entry, and after a failed create_message the
\* entry the handler filed is still Pending.
C15_FailureKeepsCache ==
    [][\A e \in Events :
        (Awaiting(e) /\ handlers'[e].pc = "failed") =>
            /\ entries' = entries
            /\ handlers[e].pc = "create_await" =>
                LET t == handlers[e].token.val
                IN  /\ t.idx < Len(entries')
                    /\ entries'[t.idx + 1] = Pair(t.source, Pending)]_vars

\* C15 witness: create_message has failed for a handler, the entry it filed is
\* Pending, and the entry an earlier handler filled is still Filled.
C15_Witness ==
    \E e \in Events :
        /\ handlers[e].kind = "create"
        /\ handlers[e].pc = "failed"
        /\ handlers[e].token # None
        /\ Pair(handlers[e].source, Pending) \in {entries[i] : i \in 1..Len(entries)}
        /\ \E i \in 1..Len(entries) :
            /\ entries[i].source # handlers[e].source
            /\ entries[i].entry.tag = "Filled"

\* C16: reverse search correctness. For every store and every value v,
\* check_repost (the length of search_by_value's result) is the number of
\* entries that are Filled with v; Pending entries are not counted.
C16_SearchByValueCounts ==
    \A v \in Replies :
        CheckRepost(entries, v) =
            Cardinality({i \in 1..Len(entries) : entries[i].entry = Filled(v)})

\* C16 witness: two entries are Filled with the same value and the count for
\* it is 2, while the count for another value is 0.
C16_Witness ==
    /\ \E i, j \in 1..Len(entries) :
        /\ i # j
        /\ entries[i].entry = Filled(1)
        /\ entries[j].entry = Filled(1)
        /\ entries[i].source # entries[j].source
    /\ CheckRepost(entries, 1) = 2
    /\ CheckRepost(entries, 2) = 0

\* C17: lookup correctness. get_entry(k) returns the state of the entry stored
\* for k when there is one and None when there is none, and it leaves the
\* store unchanged.
C17_GetEntryCorrect ==
    [][\A k \in Keys :
        GetEntry(k) =>
            /\ entries' = entries
            /\ \A i \in 1..Len(entries) :
                entries[i].source = k => last'.ret = Some(entries[i].entry)
            /\ k \notin SourcesOf(entries) => last'.ret = None]_vars

\* C18: the token index is the entry's position. Right after a file_pending
\* that returned a token, the slot at the token's idx holds the token's source
\* and it is Pending.
C18_TokenIndexIsPosition ==
    (last.op = "file_pending" /\ last.ret # None) =>
        /\ last.ret.val.source = last.source
        /\ last.ret.val.idx < Len(entries)
        /\ entries[last.ret.val.idx + 1] = Pair(last.source, Pending)

\* C18 witness: a file_pending on a full store evicted the front entry (a held
\* token's source has left the store) and put its source in front of a larger
\* one, at the idx of the token it returned.
C18_Witness ==
    /\ last.op = "file_pending" /\ last.ret # None
    /\ Len(entries) = capacity /\ capacity >= 2
    /\ last.ret.val.idx = 0
    /\ entries[1] = Pair(last.source, Pending)
    /\ entries[2].source > last.source
    /\ \E t \in tokens : t.source < last.source /\ t.source \notin SourcesOf(entries)

\* The sources of a store, in order.
SourceSeq(store) == [i \in 1..Len(store) |-> store[i].source]

\* C19: reopen frame. A take_entry(k) step (the steps that leave take_entry
\* in `last`) never changes the number of entries, the sources or their order. When k is stored it returns the state of one slot
\* of k and changes only that slot, to Pending; when k is not stored it
\* returns None and the store is as before.
C19_TakeEntryFrame ==
    [][last'.op = "take_entry" =>
        LET k == last'.source
        IN  /\ Len(entries') = Len(entries)
            /\ SourceSeq(entries') = SourceSeq(entries)
            /\ k \in SourcesOf(entries) =>
                \E i \in 1..Len(entries) :
                    /\ entries[i].source = k
                    /\ last'.ret = Some(entries[i].entry)
                    /\ entries' = [entries EXCEPT ![i] = Pair(k, Pending)]
            /\ k \notin SourcesOf(entries) =>
                /\ last'.ret = None
                /\ entries' = entries]_vars

\* C19 witness: take_entry has just returned Filled for a source that was
\* filled; its entry is Pending now and the Filled entry of another source is
\* still there.
C19_Witness ==
    /\ last.op = "take_entry"
    /\ last.ret \in {Some(Filled(v)) : v \in Replies}
    /\ \E i, j \in 1..Len(entries) :
        /\ entries[i] = Pair(last.source, Pending)
        /\ entries[j].source # last.source
        /\ entries[j].entry.tag = "Filled"

\* C20 (under PressSpec): abandoned reservations are reclaimed by capacity
\* pressure. While an entry whose token was dropped is still in the store,
\* fewer than `capacity` file_pending calls have returned a token for a larger
\* source since it was abandoned; it is evicted by the capacity-th at the
\* latest.
C20_ReclaimedByPressure ==
    /\ abandoned.tag = "Some" => pressure < capacity
    /\ abandoned.tag = "Evicted" => pressure <= capacity

\* C20 witness: an abandoned entry has just been evicted by the capacity-th
\* reservation of a larger source, in a cache of capacity 2 or more.
C20_Witness ==
    /\ abandoned.tag = "Evicted"
    /\ capacity >= 2
    /\ pressure = capacity
    /\ Len(entries) = capacity
    /\ \A i \in 1..Len(entries) : entries[i].entry = Pending

\* dispatch_event has been called for the e-th event.
Started(e) == handlers[e].pc # "idle"

\* dispatch_event has returned for the e-th event, with Ok or with an error.
Terminated(e) == handlers[e].pc \in {"done", "failed"}

\* C21 (under MainFairSpec): handlers always finish. Under fair scheduling,
\* with every outbound call returning, every dispatch_event call that was
\* started returns; none waits forever for a guard.
C21_HandlersFinish ==
    \A e \in Events : Started(e) ~> Terminated(e)

\* C21 witness: the last handler has returned after others created a reply and
\* left a Pending entry behind, and no spawned task is left running.
C21_Witness ==
    /\ \A e \in Events : handlers[e].pc = "done"
    /\ suppressing = 0
    /\ \E i \in 1..Len(entries) : entries[i].entry.tag = "Filled"
    /\ \E i \in 1..Len(entries) : entries[i].entry = Pending

\* A log line by which a handler of kind `by` asks to delete reply r.
IsDelete(line, by, r) == line.by = by /\ line.op = "delete" /\ line.reply = r

\* C22 (under OutSpec): delete handlers delete a reply at most once. No two
\* lines of the log are deletes of the same reply by MessageDelete handlers.
C22_DeleteAtMostOnce ==
    \A i, j \in 1..Len(outbound) :
        (i < j /\ outbound[i].by = "delete" /\ outbound[i].op = "delete")
            => ~IsDelete(outbound[j], "delete", outbound[i].reply)

\* C22 witness: a MessageDelete handler asked to delete the reply of a source,
\* and a later MessageDelete handler for the same source found the entry
\* Pending and asked for nothing.
C22_Witness ==
    \E i, j \in 1..Len(outbound) :
        /\ i < j
        /\ outbound[i].by = "delete" /\ outbound[i].op = "delete"
        /\ outbound[j] = Outbound("delete", "none", outbound[i].source, 0)
        /\ Pair(outbound[i].source, Pending) \in {entries[n] : n \in 1..Len(entries)}

\* C23 (under OutSpec): no outbound operation targets a reply the bot already
\* deleted. Once the log holds a delete of reply r, no later line by a
\* MessageUpdate or MessageDelete handler is an edit or a delete of r.
C23_NoOpAfterDelete ==
    \A i, j \in 1..Len(outbound) :
        (i < j /\ outbound[i].op = "delete")
            => ~(/\ outbound[j].by \in {"update", "delete"}
                 /\ outbound[j].op \in {"edit", "delete"}
                 /\ outbound[j].reply = outbound[i].reply)
====
